---- MODULE Spec2Model ----
(***************************************************************************)
(* A model of N_puzzle_A_star.py: the Board class (tiles, parent, action,  *)
(* g), its successor generation, Manhattan heuristic, repr key and goal    *)
(* test, the Solver.solve A* loop over a binary heap (queue.PriorityQueue  *)
(* is a list managed by heapq, ordered by Board.__lt__), and the main      *)
(* program that shuffles the goal board, solves it and prints the path.    *)
(*                                                                         *)
(* Python values are represented as follows.  A 2D tile list is a sequence *)
(* of rows, each a sequence of integers.  A Board object is a record; the  *)
(* objects that solve() keeps alive live in the sequence `boards`, and a   *)
(* reference to one of them is its position there.  The reference 0 and    *)
(* the action "None" stand for Python's None.  Python positions are        *)
(* 0-based; position p of a Python list is element p+1 of the sequence.    *)
(***************************************************************************)
EXTENDS Integers, Sequences, FiniteSets, TLC

VARIABLES
    pc,      \* position of the program
    puzzle,  \* Board: main's `puzzle` / Solver.puzzle / shuffle's `puzzle`
    num,     \* number of shuffle steps performed so far
    boards,  \* the Board objects retained by solve(), in creation order
    q,       \* PriorityQueue.queue: heap list of references into boards
    seen,    \* solve's `seen`: set of repr strings
    node,    \* solve's `node`: reference to the board popped last (0: none yet)
    nbs,     \* the list node.neighbors(record_parent=True) being iterated
    k,       \* number of elements of nbs already visited by the for loop
    ret,     \* the value solve() returned
    out      \* the move labels main has printed

vars == <<pc, puzzle, num, boards, q, seen, node, nbs, k, ret, out>>

\* ------------------------------------------------------------------ bounds
\* main calls shuffle(100); the model performs at most MaxShuffle steps.
MaxShuffle == 10

\* Board widths of the shuffled goal boards (main uses make_goal(3)).
Widths == {2, 3}

\* Widths whose tile grids are also handed to Solver directly by a caller.
CallerWidths == {2}

\* ------------------------------------------------------------ Python glue
None == 0

abs(x) == IF x < 0 THEN -x ELSE x

\* str(d) for one decimal digit
Digit(d) ==
    CASE d = 0 -> "0" [] d = 1 -> "1" [] d = 2 -> "2" [] d = 3 -> "3"
      [] d = 4 -> "4" [] d = 5 -> "5" [] d = 6 -> "6" [] d = 7 -> "7"
      [] d = 8 -> "8" [] d = 9 -> "9"

\* str(n) for an integer n
RECURSIVE str(_)
str(n) ==
    IF n < 0 THEN "-" \o str(-n)
    ELSE IF n < 10 THEN Digit(n)
    ELSE str(n \div 10) \o Digit(n % 10)

\* ' '.join(xs) for a sequence xs of strings: the elements from p on
RECURSIVE JoinFrom(_, _)
JoinFrom(xs, p) ==
    IF p > Len(xs) THEN ""
    ELSE IF p = Len(xs) THEN xs[p]
    ELSE xs[p] \o " " \o JoinFrom(xs, p + 1)

\* ({e : x \in {v}} binds x to the value of v, which is then computed once)
join(xs0) == CHOOSE s \in {JoinFrom(xs, 1) : xs \in {xs0}} : TRUE

\* ------------------------------------------------------------------ Board
\* Variant of Board: a child inherits its parent's depth unchanged
Board_SameDepth(tiles, parent, action, objs) ==
    [tiles  |-> tiles,
     width  |-> Len(tiles),
     parent |-> parent,
     action |-> action,
     g      |-> IF parent # None THEN objs[parent].g ELSE 0]

\* Board.__init__(tiles, parent, action); objs resolves the parent reference
Board(tiles, parent, action, objs) ==
    [tiles  |-> tiles,
     width  |-> Len(tiles),
     parent |-> parent,
     action |-> action,
     g      |-> IF parent # None THEN objs[parent].g + 1 ELSE 0]

\* Variant of Swap: the indices of the other cell are transposed
Swap_Transposed(tiles, i, j, a, b) ==
    [tiles EXCEPT ![i + 1][j + 1] = tiles[b + 1][a + 1],
                  ![b + 1][a + 1] = tiles[i + 1][j + 1]]

\* Variant of Swap: the tile is copied over the blank and stays where it was
Swap_Overwrite(tiles, i, j, a, b) ==
    [tiles EXCEPT ![i + 1][j + 1] = tiles[a + 1][b + 1]]

\* tmp = copy.deepcopy(tiles); tmp[a][b], tmp[i][j] = tmp[i][j], tmp[a][b]
\* (0-based cell coordinates)
Swap(tiles, i, j, a, b) ==
    [tiles EXCEPT ![i + 1][j + 1] = tiles[a + 1][b + 1],
                  ![a + 1][b + 1] = tiles[i + 1][j + 1]]

\* Variant of CellNeighbors: successors are emitted below, above, right, left
CellNeighbors_Order(self, selfRef, record_parent, i, j, objs) ==
    LET mk(tmp, label) ==
            IF record_parent THEN Board(tmp, selfRef, label, objs)
            ELSE Board(tmp, None, "None", objs)
        down  == IF i - 1 >= 0
                 THEN <<mk(Swap(self.tiles, i, j, i - 1, j), "Down")>> ELSE <<>>
        up    == IF i + 1 < self.width
                 THEN <<mk(Swap(self.tiles, i, j, i + 1, j), "Up")>> ELSE <<>>
        right == IF j - 1 >= 0
                 THEN <<mk(Swap(self.tiles, i, j, i, j - 1), "Right")>> ELSE <<>>
        left  == IF j + 1 < self.width
                 THEN <<mk(Swap(self.tiles, i, j, i, j + 1), "Left")>> ELSE <<>>
    IN  IF self.tiles[i + 1][j + 1] = 0
        THEN up \o down \o left \o right
        ELSE <<>>

\* Variant of CellNeighbors: labels name the direction the blank moves in
CellNeighbors_BlankLabels(self, selfRef, record_parent, i, j, objs) ==
    LET mk(tmp, label) ==
            IF record_parent THEN Board(tmp, selfRef, label, objs)
            ELSE Board(tmp, None, "None", objs)
        down  == IF i - 1 >= 0
                 THEN <<mk(Swap(self.tiles, i, j, i - 1, j), "Up")>> ELSE <<>>
        up    == IF i + 1 < self.width
                 THEN <<mk(Swap(self.tiles, i, j, i + 1, j), "Down")>> ELSE <<>>
        right == IF j - 1 >= 0
                 THEN <<mk(Swap(self.tiles, i, j, i, j - 1), "Left")>> ELSE <<>>
        left  == IF j + 1 < self.width
                 THEN <<mk(Swap(self.tiles, i, j, i, j + 1), "Right")>> ELSE <<>>
    IN  IF self.tiles[i + 1][j + 1] = 0
        THEN down \o up \o right \o left
        ELSE <<>>

\* The boards appended for the cell (i, j): nothing unless the cell holds 0
CellNeighbors(self, selfRef, record_parent, i, j, objs) ==
    LET mk(tmp, label) ==
            IF record_parent THEN Board(tmp, selfRef, label, objs)
            ELSE Board(tmp, None, "None", objs)
        down  == IF i - 1 >= 0
                 THEN <<mk(Swap(self.tiles, i, j, i - 1, j), "Down")>> ELSE <<>>
        up    == IF i + 1 < self.width
                 THEN <<mk(Swap(self.tiles, i, j, i + 1, j), "Up")>> ELSE <<>>
        right == IF j - 1 >= 0
                 THEN <<mk(Swap(self.tiles, i, j, i, j - 1), "Right")>> ELSE <<>>
        left  == IF j + 1 < self.width
                 THEN <<mk(Swap(self.tiles, i, j, i, j + 1), "Left")>> ELSE <<>>
    IN  IF self.tiles[i + 1][j + 1] = 0
        THEN down \o up \o right \o left
        ELSE <<>>

\* The two nested loops of neighbors, from cell number c (row-major) on
RECURSIVE NeighborsFrom(_, _, _, _, _)
NeighborsFrom(self, selfRef, record_parent, c, objs) ==
    IF c >= self.width * self.width THEN <<>>
    ELSE CellNeighbors(self, selfRef, record_parent,
                       c \div self.width, c % self.width, objs)
         \o NeighborsFrom(self, selfRef, record_parent, c + 1, objs)

\* Board.neighbors(record_parent); selfRef is the reference to self
neighbors(self, selfRef, record_parent, objs) ==
    NeighborsFrom(self, selfRef, record_parent, 0, objs)

\* Variant of the loops that also counts the blank's distance
RECURSIVE ManhattanFrom_CountBlank(_, _)
ManhattanFrom_CountBlank(self, c0) ==
    CHOOSE distance \in
        {IF c >= self.width * self.width THEN 0
         ELSE LET i == c \div self.width
                  j == c % self.width
                  t == self.tiles[i + 1][j + 1]
                  x == (t - 1) \div self.width
                  y == (t - 1) % self.width
              IN  abs(x - i) + abs(y - j) + ManhattanFrom_CountBlank(self, c + 1)
           : c \in {c0}} : TRUE

\* The two nested loops of manhattan, from cell number c (row-major) on
RECURSIVE ManhattanFrom(_, _)
ManhattanFrom(self, c0) ==
    CHOOSE distance \in
        {IF c >= self.width * self.width THEN 0
         ELSE LET i == c \div self.width
                  j == c % self.width
                  t == self.tiles[i + 1][j + 1]
                  x == (t - 1) \div self.width
                  y == (t - 1) % self.width
              IN  (IF t # 0 THEN abs(x - i) + abs(y - j) ELSE 0)
                  + ManhattanFrom(self, c + 1)
           : c \in {c0}} : TRUE

\* Variant of manhattan: the square of the summed distances
manhattan_Squared(self0) ==
    CHOOSE distance \in {ManhattanFrom(self, 0) * ManhattanFrom(self, 0)
                            : self \in {self0}} : TRUE

\* Board.manhattan()
manhattan(self0) ==
    CHOOSE distance \in {ManhattanFrom(self, 0) : self \in {self0}} : TRUE

\* Variant of f: the heuristic alone, the depth is left out
f_HeuristicOnly(self) == manhattan(self)

\* Board.f
f(self) == self.g + manhattan(self)

\* Board.__iter__: the tiles row by row
RECURSIVE FlattenRows(_)
FlattenRows(rows) ==
    IF Len(rows) = 0 THEN <<>> ELSE rows[1] \o FlattenRows(Tail(rows))

iter(self) == FlattenRows(self.tiles)

\* Board.__repr__
repr(self) ==
    CHOOSE s \in {join([p \in 1..Len(flat) |-> str(flat[p])])
                     : flat \in {iter(self)}} : TRUE

\* Variant of is_solved: the goal string lists the values in order, 0 first
is_solved_BlankFirst(self) ==
    LET N == self.width * self.width
    IN  repr(self) = join([v \in 1..N |-> str(v - 1)])

\* Board.is_solved()
is_solved(self) ==
    LET N == self.width * self.width
    IN  repr(self) = join([v \in 1..(N - 1) |-> str(v)]) \o " 0"

\* Board.__lt__
lt(self, other) == f(self) < f(other)

\* Variant of path: the collected chain is not reversed
RECURSIVE PathRefsGoalFirst(_, _)
PathRefsGoalFirst(cur, objs) ==
    IF cur = None THEN <<>>
    ELSE <<cur>> \o PathRefsGoalFirst(objs[cur].parent, objs)

path_Unreversed(selfRef, objs) ==
    LET refs == PathRefsGoalFirst(selfRef, objs)
    IN  [p \in 1..Len(refs) |-> objs[refs[p]]]

\* Board.path(): the chain of parents, root first
RECURSIVE PathRefs(_, _)
PathRefs(cur, objs) ==
    IF cur = None THEN <<>>
    ELSE Append(PathRefs(objs[cur].parent, objs), cur)

path(selfRef, objs) ==
    LET refs == PathRefs(selfRef, objs)
    IN  [p \in 1..Len(refs) |-> objs[refs[p]]]

\* Variant of make_goal: the values are laid out in order, blank first
make_goal_BlankFirst(s) ==
    LET arr == [p \in 1..(s * s) |-> p - 1]
    IN  [i \in 1..s |-> [j \in 1..s |-> arr[(i - 1) * s + (j - 1) + 1]]]

\* make_goal(s)
make_goal(s) ==
    LET arr == [p \in 1..(s * s) |-> IF p < s * s THEN p ELSE 0]
    IN  [i \in 1..s |-> [j \in 1..s |-> arr[(i - 1) * s + (j - 1) + 1]]]

\* ------------------------------------------------------------------ heapq
\* In the two loops below the list and the position are bound to their
\* values on entry ({e : x \in {v}} binds x to the value of v), so that each
\* round of a loop works on the list as the previous round left it.

\* heapq._siftdown(heap, startpos, pos) with newitem carried along
RECURSIVE SiftDownLoop(_, _, _, _, _)
SiftDownLoop(heap0, startpos, pos0, newitem, objs) ==
    CHOOSE result \in
        {IF pos > startpos
         THEN LET parentpos == (pos - 1) \div 2
                  parent    == heap[parentpos + 1]
              IN  IF lt(objs[newitem], objs[parent])
                  THEN SiftDownLoop([heap EXCEPT ![pos + 1] = parent],
                                    startpos, parentpos, newitem, objs)
                  ELSE [heap EXCEPT ![pos + 1] = newitem]
         ELSE [heap EXCEPT ![pos + 1] = newitem]
           : heap \in {heap0}, pos \in {pos0}} : TRUE

siftdown(heap, startpos, pos, objs) ==
    SiftDownLoop(heap, startpos, pos, heap[pos + 1], objs)

\* heapq._siftup(heap, pos): bubble the smaller child up to a leaf, then
\* sift the displaced item down from there
RECURSIVE SiftUpLoop(_, _, _, _, _)
SiftUpLoop(heap0, startpos, pos0, newitem, objs) ==
    CHOOSE result \in
        {LET endpos   == Len(heap)
             childpos == 2 * pos + 1
         IN  IF childpos < endpos
             THEN LET rightpos == childpos + 1
                      c == IF rightpos < endpos
                              /\ ~lt(objs[heap[childpos + 1]],
                                     objs[heap[rightpos + 1]])
                           THEN rightpos ELSE childpos
                  IN  SiftUpLoop([heap EXCEPT ![pos + 1] = heap[c + 1]],
                                 startpos, c, newitem, objs)
             ELSE siftdown([heap EXCEPT ![pos + 1] = newitem],
                           startpos, pos, objs)
           : heap \in {heap0}, pos \in {pos0}} : TRUE

siftup(heap, pos, objs) == SiftUpLoop(heap, pos, pos, heap[pos + 1], objs)

\* Variant of heappush: the item is appended and not sifted into place
heappush_Append(heap, item, objs) == Append(heap, item)

\* PriorityQueue.put(item): heapq.heappush(queue, item)
heappush(heap, item, objs) ==
    siftdown(Append(heap, item), 0, Len(heap), objs)

\* Variant of heappop: the smallest item is read but left in the heap
heappop_Peek(heap, objs) == <<heap[1], heap>>

\* PriorityQueue.get(): heapq.heappop(queue); <<returned item, heap left>>
heappop(heap, objs) ==
    LET lastelt == heap[Len(heap)]
        rest    == SubSeq(heap, 1, Len(heap) - 1)
    IN  IF Len(rest) > 0
        THEN <<rest[1], siftup([rest EXCEPT ![1] = lastelt], 0, objs)>>
        ELSE <<lastelt, rest>>

\* ------------------------------------------------------------ the program
\* The value returned by solve(): a list of Boards, or None
NoneValue    == [isNone |-> TRUE,  list |-> <<>>]
ListValue(l) == [isNone |-> FALSE, list |-> l]

\* All square grids of a caller's width over the values 0 .. width^2 - 1
CallerTiles ==
    UNION {[1..w -> [1..w -> 0..(w * w - 1)]] : w \in CallerWidths}

\* main: puzzle = Board(make_goal(w)) about to be shuffled, or a Solver
\* constructed by a caller on a board of its own.
Init ==
    /\ \/ /\ pc = "shuffle"
          /\ \E w \in Widths : puzzle = Board(make_goal(w), None, "None", <<>>)
       \/ /\ pc = "solve"
          /\ \E t \in CallerTiles : puzzle = Board(t, None, "None", <<>>)
    /\ num = 0
    /\ boards = <<>>
    /\ q = <<>>
    /\ seen = {}
    /\ node = None
    /\ nbs = <<>>
    /\ k = 0
    /\ ret = NoneValue
    /\ out = <<>>

\* shuffle: puzzle = random.choice(puzzle.neighbors())
Shuffle ==
    /\ pc = "shuffle"
    /\ num < MaxShuffle
    /\ LET cands == neighbors(puzzle, None, FALSE, <<>>)
       IN  \E c \in 1..Len(cands) : puzzle' = cands[c]
    /\ num' = num + 1
    /\ UNCHANGED <<pc, boards, q, seen, node, nbs, k, ret, out>>

\* shuffle returns; s = Solver(puzzle)
ShuffleReturn ==
    /\ pc = "shuffle"
    /\ pc' = "solve"
    /\ num' = 0
    /\ UNCHANGED <<puzzle, boards, q, seen, node, nbs, k, ret, out>>

\* solve: q = PriorityQueue(); q.put(puzzle); seen = {repr(puzzle)}
SolveStart ==
    /\ pc = "solve"
    /\ boards' = <<puzzle>>
    /\ q' = heappush(<<>>, 1, boards')
    /\ seen' = {repr(puzzle)}
    /\ pc' = "while"
    /\ UNCHANGED <<puzzle, num, node, nbs, k, ret, out>>

\* while not q.empty(): node = q.get(); goal test; nbs = node.neighbors(True)
\* Falling out of the loop returns None.
Get ==
    /\ pc = "while"
    /\ IF Len(q) = 0
       THEN /\ ret' = NoneValue
            /\ pc' = "returned"
            /\ UNCHANGED <<q, node, nbs, k>>
       ELSE \E r \in {heappop(q, boards)} :
                /\ node' = r[1]
                /\ q' = r[2]
                /\ IF is_solved(boards[r[1]])
                   THEN /\ ret' = ListValue(path(r[1], boards))
                        /\ pc' = "returned"
                        /\ UNCHANGED <<nbs, k>>
                   ELSE /\ nbs' = neighbors(boards[r[1]], r[1], TRUE, boards)
                        /\ k' = 0
                        /\ pc' = IF Len(nbs') = 0 THEN "while" ELSE "for"
                        /\ ret' = ret
    /\ UNCHANGED <<puzzle, num, boards, seen, out>>

\* Variant of the loop body that pushes the neighbor but never marks its key
Put_NoMark ==
    /\ pc = "for"
    /\ \E nb \in {nbs[k + 1]} : \E key \in {repr(nb)} :
           IF key \notin seen
           THEN /\ boards' = Append(boards, nb)
                /\ q' = heappush(q, Len(boards) + 1, boards')
                /\ seen' = seen
           ELSE UNCHANGED <<boards, q, seen>>
    /\ k' = k + 1
    /\ pc' = IF k' = Len(nbs) THEN "while" ELSE "for"
    /\ UNCHANGED <<puzzle, num, node, nbs, ret, out>>

\* for nb in nbs: if repr(nb) not in seen: q.put(nb); seen.add(repr(nb))
Put ==
    /\ pc = "for"
    /\ \E nb \in {nbs[k + 1]} : \E key \in {repr(nb)} :
           IF key \notin seen
           THEN /\ boards' = Append(boards, nb)
                /\ q' = heappush(q, Len(boards) + 1, boards')
                /\ seen' = seen \cup {key}
           ELSE UNCHANGED <<boards, q, seen>>
    /\ k' = k + 1
    /\ pc' = IF k' = Len(nbs) THEN "while" ELSE "for"
    /\ UNCHANGED <<puzzle, num, node, nbs, ret, out>>

\* main: for node in path: print node.action if node.parent is not None.
\* Iterating None raises TypeError.
PrintPath ==
    /\ pc = "returned"
    /\ IF ret.isNone
       THEN /\ pc' = "TypeError"
            /\ out' = out
       ELSE /\ pc' = "end"
            /\ out' = LET l == ret.list
                          lab[p \in 0..Len(l)] ==
                              IF p = 0 THEN <<>>
                              ELSE IF l[p].parent # None
                                   THEN Append(lab[p - 1], l[p].action)
                                   ELSE lab[p - 1]
                      IN  lab[Len(l)]
    /\ UNCHANGED <<puzzle, num, boards, q, seen, node, nbs, k, ret>>

Next ==
    \/ Shuffle
    \/ ShuffleReturn
    \/ SolveStart
    \/ Get
    \/ Put
    \/ PrintPath

Spec == Init /\ [][Next]_vars

\* The program is one thread that keeps running until it ends.
FairSpec == Spec /\ WF_vars(Next)

\* ------------------------------------------------- the puzzle, independently
\* The flattened tiles are a permutation of 0 .. width^2 - 1
IsPermutation(tiles) ==
    LET w == Len(tiles)
    IN  /\ \A i \in 1..w : Len(tiles[i]) = w
        /\ \A v \in 0..(w * w - 1) :
              Cardinality({c \in (1..w) \X (1..w) : tiles[c[1]][c[2]] = v}) = 1

\* Cells (1-based pairs) that are grid-adjacent
GridAdjacent(c, d) ==
    \/ c[1] = d[1] /\ abs(c[2] - d[2]) = 1
    \/ c[2] = d[2] /\ abs(c[1] - d[1]) = 1

\* t results from s by swapping the blank with a tile in an adjacent cell
BlankMove(s, t) ==
    LET w     == Len(s)
        cells == (1..w) \X (1..w)
    IN  /\ Len(t) = w
        /\ \E c, d \in cells :
              /\ GridAdjacent(c, d)
              /\ s[c[1]][c[2]] = 0 /\ s[d[1]][d[2]] # 0
              /\ t[c[1]][c[2]] = s[d[1]][d[2]] /\ t[d[1]][d[2]] = 0
              /\ \A e \in cells \ {c, d} : t[e[1]][e[2]] = s[e[1]][e[2]]

\* All grids one blank move away from the permutation s
MovesOf(s) ==
    LET w     == Len(s)
        cells == (1..w) \X (1..w)
        c     == CHOOSE x \in cells : s[x[1]][x[2]] = 0
    IN  {[s EXCEPT ![c[1]][c[2]] = s[d[1]][d[2]], ![d[1]][d[2]] = 0] :
            d \in {x \in cells : GridAdjacent(c, x)}}

\* The solved layout 1, 2, ..., w^2 - 1, 0 as a grid
SolvedTiles(w) ==
    LET flat == [p \in 1..(w * w) |-> IF p = w * w THEN 0 ELSE p]
    IN  [i \in 1..w |-> SubSeq(flat, (i - 1) * w + 1, i * w)]

\* Breadth-first levels around the solved layout: element d+1 is the set of
\* grids whose minimum number of blank moves to the solved layout is d.
\* The search stops when a level is empty or, if limit >= 0, after `limit`
\* levels beyond the first.
RECURSIVE BfsLevels(_, _, _)
BfsLevels(levels, known, limit) ==
    LET last  == levels[Len(levels)]
        fresh == (UNION {MovesOf(s) : s \in last}) \ known
    IN  IF fresh = {} \/ Len(levels) - 1 = limit THEN levels
        ELSE BfsLevels(Append(levels, fresh), known \cup fresh, limit)

\* Whole configuration space for the callers' widths, MaxShuffle levels for
\* the others: every board the model hands to solve lies inside.
Levels ==
    [w \in Widths |->
        BfsLevels(<<{SolvedTiles(w)}>>, {SolvedTiles(w)},
                  IF w \in CallerWidths THEN -1 ELSE MaxShuffle)]

\* The board can be brought to the solved layout by blank moves
Reachable(tiles) ==
    /\ Len(tiles) \in Widths
    /\ \E d \in 1..Len(Levels[Len(tiles)]) : tiles \in Levels[Len(tiles)][d]

\* Minimum number of blank moves from a reachable board to the solved layout
MinMoves(tiles) ==
    (CHOOSE d \in 1..Len(Levels[Len(tiles)]) : tiles \in Levels[Len(tiles)][d]) - 1

\* solve() has returned
Returned == pc \in {"returned", "end", "TypeError"}

\* The move labels carried by a list of Boards
Labels(l) ==
    LET some == SelectSeq(l, LAMBDA b : b.parent # None)
    IN  [p \in 1..Len(some) |-> some[p].action]

\* ----------------------------------------------------------------- claims
\* C1 (optimality): when solve returns for an initial board that is
\* reachable from the solved layout, the returned path has exactly
\* (minimum number of blank moves to the solved layout) + 1 elements.
C1_Optimality ==
    (Returned /\ Reachable(puzzle.tiles)) =>
        /\ ~ret.isNone
        /\ Len(ret.list) = MinMoves(puzzle.tiles) + 1

\* C2 (path validity): for a solvable initial board the returned path starts
\* with the initial board and ends with a board whose flattened tiles are
\* 1, 2, ..., width^2 - 1, 0.
C2_PathValidity ==
    (Returned /\ Reachable(puzzle.tiles)) =>
        /\ ~ret.isNone
        /\ Len(ret.list) >= 1
        /\ ret.list[1] = puzzle
        /\ LET last == ret.list[Len(ret.list)]
               N    == puzzle.width * puzzle.width
           IN  iter(last) = [p \in 1..N |-> IF p < N THEN p ELSE 0]

\* A path of several moves has been returned for a shuffled width-3 board
C2_Witness ==
    /\ pc = "returned" /\ ~ret.isNone
    /\ puzzle.width = 3
    /\ Len(ret.list) >= 5
    /\ ret.list[1].tiles = puzzle.tiles

\* C3 (single-move adjacency): consecutive elements of a returned path
\* differ by exactly one swap of the blank with a tile in a grid-adjacent
\* cell, all other cells being equal.
C3_Adjacency ==
    (Returned /\ ~ret.isNone) =>
        \A p \in 1..(Len(ret.list) - 1) :
            BlankMove(ret.list[p].tiles, ret.list[p + 1].tiles)

\* A returned path with moves in a row and in a column of a width-3 board
C3_Witness ==
    /\ pc = "returned" /\ ~ret.isNone
    /\ puzzle.width = 3
    /\ \E p, r \in 2..Len(ret.list) :
          /\ ret.list[p].action \in {"Up", "Down"}
          /\ ret.list[r].action \in {"Left", "Right"}

\* C4 (monotonic depth): every board created by expansion has the depth of
\* the board it was expanded from plus 1; along a returned path the depth
\* is 0 at the root and grows by exactly 1 per element, and the path has
\* (depth of its last element) + 1 elements.
C4_MonotonicDepth ==
    /\ \A b \in 1..Len(boards) :
          IF boards[b].parent = None THEN boards[b].g = 0
          ELSE boards[b].g = boards[boards[b].parent].g + 1
    /\ (pc = "for") => \A p \in 1..Len(nbs) : nbs[p].g = boards[node].g + 1
    /\ (Returned /\ ~ret.isNone) =>
          /\ ret.list[1].g = 0
          /\ \A p \in 1..(Len(ret.list) - 1) :
                ret.list[p + 1].g = ret.list[p].g + 1
          /\ Len(ret.list) = boards[node].g + 1

\* A path ending at depth 4 or more has been returned
C4_Witness ==
    /\ pc = "returned" /\ ~ret.isNone
    /\ boards[node].g >= 4
    /\ Len(boards) > Len(ret.list)

\* C5 (terminal outcome): from every start of solve on a permutation of
\* 0 .. width^2 - 1 the search loop eventually returns, with a path (Solved)
\* exactly when the board is reachable from the solved layout and with no
\* path (Exhausted) exactly when it is not.
C5_TerminalOutcome ==
    (pc = "solve" /\ IsPermutation(puzzle.tiles))
        ~> (pc = "returned" /\ (ret.isNone <=> ~Reachable(puzzle.tiles)))

\* The frontier ran empty on an unsolvable permutation after the whole of
\* its configuration class was seen
C5_Witness ==
    /\ pc = "returned" /\ ret.isNone
    /\ IsPermutation(puzzle.tiles) /\ ~Reachable(puzzle.tiles)
    /\ q = <<>>
    /\ Cardinality(seen) > 2

\* C6 (unsolvable input): for a permutation in the wrong parity class solve
\* reports an explicit failure value, not nothing, and the program does not
\* crash.
C6_UnsolvableReported ==
    (IsPermutation(puzzle.tiles) /\ ~Reachable(puzzle.tiles)) =>
        /\ pc # "TypeError"
        /\ Returned => ~ret.isNone

\* C7 (malformed input): a board that is not a permutation of
\* 0 .. width^2 - 1 is rejected before the search starts: nothing is pushed
\* into the frontier, nothing is marked seen and nothing is expanded.
C7_MalformedRejected ==
    ~IsPermutation(puzzle.tiles) =>
        /\ boards = <<>> /\ q = <<>> /\ seen = {}
        /\ node = None /\ nbs = <<>>
        /\ ~Returned

\* The initial tiles of the concrete scenario
ScenarioTiles == <<<<1, 2, 3>>, <<4, 0, 6>>, <<7, 5, 8>>>>

\* C8 as stated (concrete scenario): the scenario board yields a path of
\* length 2 carrying the single label of the blank swapping with tile 5.
C8_ScenarioAsStated ==
    (Returned /\ puzzle.tiles = ScenarioTiles) =>
        /\ ~ret.isNone
        /\ Len(ret.list) = 2
        /\ Labels(ret.list) = <<"Up">>

\* C8 amended (concrete scenario): the scenario board yields a path of
\* length 3 (the initial board and two successors) carrying two labels,
\* "Up" for the blank swapping with tile 5 below it, then "Left" for the
\* blank swapping with tile 8 to its right; main prints exactly these.
C8_Scenario ==
    (Returned /\ puzzle.tiles = ScenarioTiles) =>
        /\ ~ret.isNone
        /\ Len(ret.list) = 3
        /\ Labels(ret.list) = <<"Up", "Left">>
        /\ ret.list[2].tiles = <<<<1, 2, 3>>, <<4, 5, 6>>, <<7, 0, 8>>>>
        /\ ret.list[3].tiles = <<<<1, 2, 3>>, <<4, 5, 6>>, <<7, 8, 0>>>>
        /\ pc = "end" => out = <<"Up", "Left">>

\* main has printed the path found for the scenario board
C8_Witness ==
    /\ pc = "end"
    /\ puzzle.tiles = ScenarioTiles
    /\ Len(out) > 0

\* The in-bounds directions around the 0-based cell (i, j) of a board of
\* width w, in the order above, below, left, right, with their labels
Directions(i, j, w) ==
    SelectSeq(<< <<i - 1, j, "Down">>, <<i + 1, j, "Up">>,
                 <<i, j - 1, "Right">>, <<i, j + 1, "Left">> >>,
              LAMBDA d : d[1] >= 0 /\ d[1] < w /\ d[2] >= 0 /\ d[2] < w)

\* C10 (successor generation): the expansion of a board with its blank at
\* (i, j) emits at most 4 successors, one per in-bounds neighbour of the
\* blank, in the order above, below, left, right; each is the expanded
\* board with the blank and that neighbour swapped and all other cells
\* equal, labelled "Down", "Up", "Right", "Left" respectively, and has the
\* expanded board as its predecessor.
C10_SuccessorGeneration ==
    (pc \in {"for", "while"} /\ node # None /\ IsPermutation(puzzle.tiles)) =>
        LET s    == boards[node].tiles
            w    == boards[node].width
            c    == CHOOSE x \in (0..(w - 1)) \X (0..(w - 1)) :
                        s[x[1] + 1][x[2] + 1] = 0
            dirs == Directions(c[1], c[2], w)
        IN  /\ Len(nbs) <= 4
            /\ Len(nbs) = Len(dirs)
            /\ \A p \in 1..Len(nbs) :
                  /\ nbs[p].action = dirs[p][3]
                  /\ nbs[p].parent = node
                  /\ nbs[p].tiles[dirs[p][1] + 1][dirs[p][2] + 1] = 0
                  /\ nbs[p].tiles[c[1] + 1][c[2] + 1]
                        = s[dirs[p][1] + 1][dirs[p][2] + 1]
                  /\ \A x \in ((0..(w - 1)) \X (0..(w - 1)))
                                \ {c, <<dirs[p][1], dirs[p][2]>>} :
                        nbs[p].tiles[x[1] + 1][x[2] + 1] = s[x[1] + 1][x[2] + 1]

\* A width-3 board with its blank in the centre has been expanded into
\* four successors
C10_Witness ==
    /\ pc = "for"
    /\ boards[node].width = 3
    /\ boards[node].tiles[2][2] = 0
    /\ Len(nbs) = 4

\* C11 (zero-step shuffle then solve): the board a shuffle of 0 steps
\* returns is the solved layout itself, and solving the solved layout
\* returns a path of length 1 whose only element has no move label and no
\* predecessor, without any board having been expanded or generated.
C11_ZeroStepShuffle ==
    /\ [](/\ (pc = "shuffle" /\ num = 0) =>
                 /\ puzzle.tiles = SolvedTiles(puzzle.width)
                 /\ puzzle.parent = None /\ puzzle.action = "None"
          /\ (pc \notin {"shuffle", "solve"}
                 /\ puzzle.tiles = SolvedTiles(puzzle.width)) =>
                 /\ pc # "for" /\ nbs = <<>> /\ Len(boards) = 1
                 /\ Returned =>
                       /\ ~ret.isNone
                       /\ Len(ret.list) = 1
                       /\ ret.list[1].tiles = puzzle.tiles
                       /\ ret.list[1].action = "None"
                       /\ ret.list[1].parent = None
                       /\ q = <<>>
                 /\ pc = "end" => out = <<>>)
    /\ [][(pc = "shuffle" /\ num = 0 /\ pc' = "solve") => puzzle' = puzzle]_vars

\* solve has returned for the width-3 goal board
C11_Witness ==
    /\ pc = "returned" /\ ~ret.isNone
    /\ puzzle.tiles = SolvedTiles(3)
    /\ node = 1 /\ Len(ret.list) = 1

\* All grids at most r >= 0 blank moves away from the permutation s
Ball(s, r) ==
    LET levels == BfsLevels(<<{s}>>, {s}, r)
    IN  UNION {levels[d] : d \in 1..Len(levels)}

\* Some sequence of at most n blank moves leads from s to t: the grids
\* within n \div 2 moves of s and within the remaining moves of t meet
WithinMoves(s, t, n) ==
    /\ n >= 0
    /\ \E m \in {n \div 2} : Ball(s, m) \cap Ball(t, n - m) # {}

\* The for loop of solve has just pushed nbs[k]
JustPushed ==
    /\ pc \in {"for", "while"}
    /\ k >= 1 /\ k <= Len(nbs)
    /\ boards[Len(boards)] = nbs[k]

\* C12 (first discovery is optimal): a configuration carries, when it is
\* marked seen and pushed, a depth g equal to the minimum number of blank
\* moves from the root to it.  (Boards never change once pushed, so this
\* holding at every push is the claim for every seen configuration in every
\* state.)
C12_FirstDiscoveryOptimal ==
    (JustPushed /\ IsPermutation(puzzle.tiles)) =>
        LET b == boards[Len(boards)]
        IN  /\ WithinMoves(puzzle.tiles, b.tiles, b.g)
            /\ ~WithinMoves(puzzle.tiles, b.tiles, b.g - 1)

\* C13 (frontier pop is minimal): at every pop the cost f = g + h of the
\* popped board is at most the cost of every board that remains in the
\* frontier at that moment.
C13_PopIsMinimal ==
    [][(pc = "while" /\ Len(q) > 0) =>
          \A p \in 1..Len(q') : f(boards[node']) <= f(boards[q'[p]])]_vars

\* A board has just been popped from a frontier that still holds several
\* boards, one of them of the same cost and one of a larger cost
C13_Witness ==
    /\ pc = "for" /\ k = 0
    /\ Len(q) >= 3
    /\ \E p \in 1..Len(q) : f(boards[q[p]]) = f(boards[node])
    /\ \E p \in 1..Len(q) : f(boards[q[p]]) > f(boards[node])

\* C14 (FIFO tie-break): in the search of a well-formed puzzle, among
\* frontier boards of equal cost f the board pushed first is popped first:
\* at every pop no board of the same cost
\* that was pushed earlier (boards are numbered in push order) remains in
\* the frontier.
C14_FifoTieBreak ==
    [][(pc = "while" /\ Len(q) > 0 /\ IsPermutation(puzzle.tiles)) =>
          \A p \in 1..Len(q') :
              f(boards[q'[p]]) = f(boards[node']) => q'[p] > node']_vars

\* C15 (duplicate elimination): once the search has started, the seen set
\* is exactly the set of keys of the boards pushed so far (popped or still
\* in the frontier), no two pushed boards have the same key or the same
\* tiles, the frontier holds pushed boards only, each at most once, the
\* root is the first pushed board and its key is marked; and the seen set
\* only grows.
C15_DuplicateElimination ==
    /\ [](pc \notin {"shuffle", "solve"} =>
            /\ {repr(boards[b]) : b \in 1..Len(boards)} = seen
            /\ Cardinality(seen) = Len(boards)
            /\ Cardinality({boards[b].tiles : b \in 1..Len(boards)}) = Len(boards)
            /\ \A p \in 1..Len(q) : q[p] \in 1..Len(boards)
            /\ Cardinality({q[p] : p \in 1..Len(q)}) = Len(q)
            /\ boards[1] = puzzle
            /\ repr(puzzle) \in seen)
    /\ [][seen \subseteq seen']_vars

\* A run in which a successor was discarded because its key was marked,
\* after other successors had been pushed.
C15_Witness ==
    /\ pc \in {"for", "while"}
    /\ k >= 1
    /\ k <= Len(nbs)
    /\ Len(boards) >= 4
    /\ repr(nbs[k]) \in seen
    /\ boards[Len(boards)] # nbs[k]

\* The boards at hand in a state: the puzzle, the popped board and the
\* neighbors it generated
BoardsAtHand ==
    {puzzle} \cup {nbs[p] : p \in 1..Len(nbs)}
             \cup (IF node = None THEN {} ELSE {boards[node]})

\* C16 (admissibility): for every board that can be brought to the solved
\* layout by blank moves, manhattan() is at most the minimum number of
\* blank moves to the solved layout found by breadth-first search.
C16_Admissible ==
    \A b \in BoardsAtHand :
        Reachable(b.tiles) => manhattan(b) <= MinMoves(b.tiles)

\* A shuffled board eight or more moves from the solved layout whose
\* heuristic is strictly below its distance, with a generated neighbor
\* whose heuristic equals its distance.
C16_Witness ==
    /\ pc = "for"
    /\ puzzle.width = 3
    /\ Reachable(puzzle.tiles)
    /\ MinMoves(puzzle.tiles) >= 8
    /\ manhattan(puzzle) < MinMoves(puzzle.tiles)
    /\ \E p \in 1..Len(nbs) :
           /\ Reachable(nbs[p].tiles)
           /\ manhattan(nbs[p]) = MinMoves(nbs[p].tiles)

\* C17 (consistency): for every board whose tiles are a permutation of
\* 0..width^2-1, each successor produced by neighbors() has a heuristic
\* value within 1 of the board's own; checked for the neighbors the search
\* generates from a popped board and for every step of shuffle.
C17_Consistent ==
    /\ []((pc = "for" /\ IsPermutation(boards[node].tiles)) =>
            \A p \in 1..Len(nbs) :
                abs(manhattan(nbs[p]) - manhattan(boards[node])) <= 1)
    /\ [][(pc = "shuffle" /\ IsPermutation(puzzle.tiles) /\ puzzle' # puzzle) =>
            abs(manhattan(puzzle') - manhattan(puzzle)) <= 1]_vars

\* A popped 3x3 board with one successor closer to the goal and one farther
C17_Witness ==
    /\ pc = "for"
    /\ boards[node].width = 3
    /\ IsPermutation(boards[node].tiles)
    /\ \E p \in 1..Len(nbs) : manhattan(nbs[p]) = manhattan(boards[node]) + 1
    /\ \E p \in 1..Len(nbs) : manhattan(nbs[p]) = manhattan(boards[node]) - 1

\* C18 (heuristic zero iff solved): for every board whose tiles are a
\* permutation of 0..width^2-1, manhattan() is not negative, it is 0
\* exactly when is_solved() is true, and is_solved() is true exactly when
\* the tiles are the layout make_goal(width) builds.
C18_ZeroIffSolved ==
    \A b \in BoardsAtHand :
        IsPermutation(b.tiles) =>
            /\ manhattan(b) >= 0
            /\ (manhattan(b) = 0) <=> is_solved(b)
            /\ is_solved(b) <=> (b.tiles = make_goal(b.width))

\* A search of a 3x3 puzzle that popped the solved board several moves
\* deep, with unsolved neighbors of the previous expansion still at hand
C18_Witness ==
    /\ pc = "returned"
    /\ ~ret.isNone
    /\ puzzle.width = 3
    /\ IsPermutation(puzzle.tiles)
    /\ boards[node].g >= 3
    /\ is_solved(boards[node])
    /\ manhattan(boards[node]) = 0
    /\ \E p \in 1..Len(nbs) : manhattan(nbs[p]) > 0 /\ ~is_solved(nbs[p])

\* C19 (permutation invariant): from a root whose tiles are a permutation of
\* 0..width^2-1, every board generated by expansion or by shuffle, the
\* board last pushed, the popped board and every board of the returned path
\* has tiles that are a permutation of 0..width^2-1 (so exactly one blank)
\* and the width of the root.
C19_PermutationInvariant ==
    /\ [](IsPermutation(puzzle.tiles) =>
            \A b \in BoardsAtHand
                     \cup (IF Len(boards) > 0 THEN {boards[Len(boards)]} ELSE {})
                     \cup {ret.list[p] : p \in 1..Len(ret.list)} :
                /\ IsPermutation(b.tiles)
                /\ b.width = puzzle.width
                /\ Len(b.tiles) = puzzle.width)
    /\ [][(pc = "shuffle" /\ IsPermutation(puzzle.tiles)) =>
            /\ IsPermutation(puzzle'.tiles)
            /\ puzzle'.width = puzzle.width]_vars

\* A search of a shuffled 3x3 puzzle that returned a path of several boards
C19_Witness ==
    /\ pc = "returned"
    /\ ~ret.isNone
    /\ puzzle.width = 3
    /\ IsPermutation(puzzle.tiles)
    /\ Len(ret.list) >= 5
    /\ Len(boards) >= 10

\* C20 (non-decreasing pop cost): in a search from a permutation, each
\* popped board has a cost f = g + h at least that of the board popped
\* before it, and every neighbor generated from a popped board has a cost
\* at least that of the popped board.
C20_PopCostNonDecreasing ==
    /\ [][(pc = "while" /\ Len(q) > 0 /\ node # None
              /\ IsPermutation(puzzle.tiles)) =>
            f(boards[node']) >= f(boards[node])]_vars
    /\ []((pc = "for" /\ IsPermutation(puzzle.tiles)) =>
            \A p \in 1..Len(nbs) : f(nbs[p]) >= f(boards[node]))

\* A 3x3 search several pops in, whose popped board costs more than the
\* root did, with boards still waiting in the frontier
C20_Witness ==
    /\ pc = "for"
    /\ k = 0
    /\ puzzle.width = 3
    /\ IsPermutation(puzzle.tiles)
    /\ boards[node].g >= 2
    /\ f(boards[node]) > f(boards[1])
    /\ Len(q) >= 2
    /\ \E p \in 1..Len(nbs) : f(nbs[p]) > f(boards[node])

TypeOK ==
    /\ pc \in {"shuffle", "solve", "while", "for", "returned", "end", "TypeError"}
    /\ num \in 0..MaxShuffle
    /\ node \in 0..Len(boards)
    /\ k \in 0..Len(nbs)
====
